---- MODULE Spec2Model ----
(***************************************************************************)
(* Model of the expansion engine of Pate (plugins/expand/udf.py) and of    *)
(* the event listeners of kate/__init__.py.                                *)
(*                                                                         *)
(* A document is a sequence of lines, a line a sequence of one-character   *)
(* strings.  Lines and columns are numbered from 0 as in KTextEditor, so   *)
(* line l of the document is doc[l + 1] and column c of it is line[c + 1]. *)
(***************************************************************************)
EXTENDS Integers, Sequences, FiniteSets, TLC

VARIABLES
    doc,        \* the document: sequence of lines
    scArg,      \* matchingParenthesisPosition: the position object of the caller
    scOpening,  \* matchingParenthesisPosition: the opening parameter
    sc,         \* matchingParenthesisPosition: locals (position copy, level, state)
    doc0,       \* the document when the attempt started (history)
    cursor,     \* view.cursorPosition()
    pc,         \* expandAtCursor: the step the attempt has reached
    att,        \* expandAtCursor: locals of the attempt
    popups,     \* kate.ui.popup calls so far
    edits,      \* removeText / insertText / insertTemplateText calls so far
    calls,      \* number of invocations of the expansion callable
    files,      \* the .expand files of the search directories
    cache,      \* the lru_cache of getExpansionsFor, least recently used first
    built,      \* media type -> number of times its expansion set was built
    req,        \* the last getExpansionsFor call and its outcome
    argInput,   \* document.text(argument_range) of an argument parsing run
    argOutput,  \* the arguments and namedArgs parsed from it
    tooltips,   \* QToolTip.showText calls so far
    functions,  \* kate: event -> the functions registered for it
    actions,    \* kate: action.actions
    die         \* kate: progress of pateDie and what it called (history)

vars == <<doc, scArg, scOpening, sc, doc0, cursor, pc, att, popups, edits, calls,
          files, cache, built, req, argInput, argOutput, tooltips, functions, actions,
          die>>
scanVars == <<scArg, scOpening, sc>>
editorVars == <<doc, doc0, cursor, pc, att, popups, edits, calls>>
registryVars == <<files, cache, built, req>>
argVars == <<argInput, argOutput>>
lifecycleVars == <<functions, actions, die>>

(***************************************************************************)
(* Bounds of the model.                                                    *)
(***************************************************************************)
MaxLen == 4     \* enumerated documents hold at most MaxLen characters
NDirs == 2      \* number of search directories
MaxMimes == 129 \* number of further media types requested in a cache run
MaxBuilds == 2  \* a cache run ends when a media type was built MaxBuilds times
NFuncs == 2     \* number of functions that plugins register as listeners
NActions == 1   \* number of actions that plugins register

(***************************************************************************)
(* Characters and documents.                                               *)
(***************************************************************************)
None == "None"                  \* Python None / the null QChar
NL == "\n"
Quotes == {"\"", "'"}
Alphabet == {"a", "(", ")", "\"", "'", NL}

RECURSIVE SplitLines(_)
\* the lines of a text: the text cut at every newline (always >= 1 line)
SplitLines(text) ==
    IF \A i \in 1..Len(text) : text[i] # NL
    THEN <<text>>
    ELSE LET k == CHOOSE i \in 1..Len(text) :
                      text[i] = NL /\ \A j \in 1..(i - 1) : text[j] # NL
         IN  <<SubSeq(text, 1, k - 1)>> \o SplitLines(SubSeq(text, k + 1, Len(text)))

RECURSIVE JoinLines(_)
\* the text of a document: its lines joined by newlines
JoinLines(lines) ==
    IF Len(lines) = 1 THEN lines[1]
    ELSE lines[1] \o <<NL>> \o JoinLines(Tail(lines))

Texts == UNION {[1..n -> Alphabet] : n \in 0..MaxLen}

\* the examples of the documentation
FooBarLine == <<"x","x"," ","f","o","o","(","1",","," ","b","a","r","=","2",")"," ","y","y">>
FooQuotedLine == <<"f","o","o","(","\"","a",")","b","\"",","," ","c",")">>
FooEmptyLine == <<"f","o","o","(",")"," ">>
\* f("\")") : a string literal that holds an escaped quote and a parenthesis
FooEscapedLine == <<"f", "(", "\"", "\\", "\"", ")", "\"", ")">>
TodayLine == <<"t","o","d","a","y">>
SampleDocs ==
    { <<FooBarLine>>, <<FooQuotedLine>>, <<FooEmptyLine>>, <<TodayLine>>,
      <<<<"a","a","f","(">>, <<"a",")">>>>,
      <<<<"f","(","a","=","b","=","c",")">>>>,
      <<<<"f","o","o","(">>, <<>>, <<"a",","," ","b",")">>>>,
      <<<<"(",")","a","(">>, <<"a","a",")">>>>,
      <<<<"a","(",")","(",")">>>>,
      <<FooEscapedLine>> }

Docs == {SplitLines(t) : t \in Texts} \cup SampleDocs

Pos(l, c) == [line |-> l, col |-> c]

\* KTextEditor::Document::character: the null character when out of bounds
character(d, p) ==
    IF /\ p.line \in 0..(Len(d) - 1)
       /\ p.col \in 0..(Len(d[p.line + 1]) - 1)
    THEN d[p.line + 1][p.col + 1]
    ELSE None

\* KTextEditor::Document::lineLength: -1 for a line the document has not
lineLength(d, l) == IF l \in 0..(Len(d) - 1) THEN Len(d[l + 1]) ELSE -1

\* the positions of the characters of a document
CharPositions(d) ==
    UNION {{Pos(l, c) : c \in 0..(Len(d[l + 1]) - 1)} : l \in 0..(Len(d) - 1)}

(***************************************************************************)
(* matchingParenthesisPosition (udf.py 93-136), one loop iteration at a    *)
(* time.  The locals are sc = [pos, level, state, status]; status is       *)
(* "run" inside the loop, "found" after the break (the function returns    *)
(* sc.pos), "eof" / "eol" after the two raise statements.                  *)
(***************************************************************************)
closingOf(opening) == IF opening = "(" THEN ")" ELSE "("
deltaOf(opening) == IF opening = "(" THEN 1 ELSE -1

ScanInit(position) ==
    [pos |-> position, level |-> 0, state |-> None, status |-> "run"]

\* a scan that moves the position object of its caller
CallerPosition_Aliased(position, s) == s.pos

\* line 97: the scan works on a copy of `position`, so the object of the
\* caller keeps its value whatever the locals s of the scan become
CallerPosition(position, s) == position

\* a scan that counts the delimiters of quoted spans too
ScanLevel_CountsQuoted(opening, s, ch) ==
    IF ch = opening THEN s.level + 1
    ELSE IF ch = closingOf(opening) THEN s.level - 1
    ELSE s.level

\* lines 102-116: the effect of the character under the position
ScanLevel(opening, s, ch) ==
    IF s.state \in Quotes THEN s.level
    ELSE IF ch = opening THEN s.level + 1
    ELSE IF ch = closingOf(opening) THEN s.level - 1
    ELSE s.level

ScanState(opening, s, ch) ==
    IF s.state \in Quotes
    THEN (IF ch = s.state THEN None ELSE s.state)
    ELSE IF ch = opening THEN s.state
    ELSE IF ch = closingOf(opening) THEN s.state
    ELSE IF ch \in Quotes THEN ch
    ELSE s.state

ScanBreaks(opening, s, ch) ==
    /\ s.state \notin Quotes
    /\ ch # opening
    /\ ch = closingOf(opening)
    /\ ScanLevel(opening, s, ch) = 0

\* a scan that returns the position of the ")" itself
ScanBreakPos_NoStep(opening, p) == p

\* lines 112-114: the position returned at the break
ScanBreakPos(opening, p) ==
    IF closingOf(opening) = ")" THEN Pos(p.line, p.col + deltaOf(opening)) ELSE p

\* a backward wrap to the column after the last one of the previous line
ScanWrapPos_OffByOne(d, opening, p) ==
    LET l == p.line + deltaOf(opening)
    IN  IF deltaOf(opening) = -1 THEN Pos(l, lineLength(d, l)) ELSE Pos(l, 0)

\* lines 121-124: the position after the wrap to the adjacent line
ScanWrapPos(d, opening, p) ==
    LET l == p.line + deltaOf(opening)
    IN  IF deltaOf(opening) = -1 THEN Pos(l, lineLength(d, l) - 1) ELSE Pos(l, 0)

\* a scan that starts again on the character it is on when its line ends
ScanAdvance_Restarts(d, opening, p, state, level) ==
    LET p1 == Pos(p.line, p.col + deltaOf(opening))
    IN  IF character(d, p1) # None
        THEN [pos |-> p1, level |-> level, state |-> state, status |-> "run"]
        ELSE [pos |-> p, level |-> 0, state |-> None, status |-> "run"]

\* lines 118-135: move on, wrap to the adjacent line, raise
ScanAdvance(d, opening, p, state, level) ==
    LET p1 == Pos(p.line, p.col + deltaOf(opening))
        p2 == ScanWrapPos(d, opening, p1)
    IN  IF character(d, p1) # None
        THEN [pos |-> p1, level |-> level, state |-> state, status |-> "run"]
        ELSE IF character(d, p2) = None
        THEN [pos |-> p2, level |-> level, state |-> state, status |-> "eof"]
        ELSE IF state \in Quotes
        THEN [pos |-> p2, level |-> level, state |-> state, status |-> "eol"]
        ELSE [pos |-> p2, level |-> level, state |-> state, status |-> "run"]

\* lines 101-135: one iteration of the loop
ScanIter(d, opening, s) ==
    LET ch == character(d, s.pos)
    IN  IF ScanBreaks(opening, s, ch)
        THEN [pos |-> ScanBreakPos(opening, s.pos), level |-> 0,
              state |-> s.state, status |-> "found"]
        ELSE ScanAdvance(d, opening, s.pos,
                         ScanState(opening, s, ch), ScanLevel(opening, s, ch))

RECURSIVE ScanLoop(_, _, _)
ScanLoop(d, opening, s) ==
    IF s.status # "run" THEN s ELSE ScanLoop(d, opening, ScanIter(d, opening, s))

\* the whole call: the final locals (sc.pos is the value returned)
matchingParenthesisPosition(d, position, opening) ==
    ScanLoop(d, opening, ScanInit(position))

(***************************************************************************)
(* KTextEditor ranges and the text operations of the document, defined on  *)
(* the text of the document (its lines joined by newlines).                *)
(***************************************************************************)
PosLE(a, b) == a.line < b.line \/ (a.line = b.line /\ a.col <= b.col)

\* argument_range is None (a record, so that it compares with ranges)
NoRange == [start |-> [line |-> -1, col |-> -1], end |-> [line |-> -1, col |-> -1]]

\* KTextEditor::Range(start, end) orders its two cursors
Range(a, b) == IF PosLE(a, b) THEN [start |-> a, end |-> b] ELSE [start |-> b, end |-> a]

RECURSIVE Offset(_, _)
\* number of characters of the text before position p
Offset(d, p) ==
    IF p.line = 0 THEN p.col
    ELSE Len(d[p.line]) + 1 + Offset(d, Pos(p.line - 1, p.col))

\* KTextEditor::Document::text(range)
text(d, r) == SubSeq(JoinLines(d), Offset(d, r.start) + 1, Offset(d, r.end))

\* KTextEditor::Document::removeText(range)
removeText(d, r) ==
    LET t == JoinLines(d)
    IN  SplitLines(SubSeq(t, 1, Offset(d, r.start)) \o SubSeq(t, Offset(d, r.end) + 1, Len(t)))

\* KTextEditor::Document::insertText(position, text)
insertText(d, p, txt) ==
    LET t == JoinLines(d)
    IN  SplitLines(SubSeq(t, 1, Offset(d, p)) \o txt \o SubSeq(t, Offset(d, p) + 1, Len(t)))

(***************************************************************************)
(* wordAndArgumentAtCursorRanges (udf.py 53-89).  The locals are           *)
(* st = [cursor, arg, err]: the (reassigned) cursor, argument_range (NoRange *)
(* or a range) and the exception raised so far (None, "eof", "eol" for the *)
(* two ParseErrors, "IndexError").                                         *)
(***************************************************************************)
NonIdentifier == {"(", ")", "\"", "'", " ", ",", "=", NL}
IsIdentifier(ch) == ch \notin NonIdentifier

\* libkatepate.common.getBoundTextRangeSL with IDENTIFIER_BOUNDARIES: the
\* maximal run of identifier characters touching the cursor, on its line
getBoundTextRangeSL(d, cur) ==
    LET line == d[cur.line + 1]
        s == CHOOSE i \in 0..cur.col :
                 /\ \A j \in (i + 1)..cur.col : IsIdentifier(line[j])
                 /\ (i = 0 \/ ~IsIdentifier(line[i]))
        e == CHOOSE i \in cur.col..Len(line) :
                 /\ \A j \in (cur.col + 1)..i : IsIdentifier(line[j])
                 /\ (i = Len(line) \/ ~IsIdentifier(line[i + 1]))
    IN  [start |-> Pos(cur.line, s), end |-> Pos(cur.line, e)]

\* Range.isValid() of the word range: an empty word is reported as invalid
wordRangeIsValid(r) == r.start.col < r.end.col

\* Python line[i]: negative indexes count from the end, others raise
PyIndexOk(line, i) == -Len(line) <= i /\ i < Len(line)
PyIndex(line, i) == IF i >= 0 THEN line[i + 1] ELSE line[Len(line) + i + 1]

\* lines 61-65 and 69-73: the argument list that ends at argument_end
LocBackward(d, st, argument_end) ==
    LET m == matchingParenthesisPosition(d, argument_end, ")")
    IN  IF m.status # "found"
        THEN [st EXCEPT !.err = m.status]
        ELSE [cursor |-> m.pos,
              arg |-> Range(m.pos, Pos(argument_end.line, argument_end.col + 1)),
              err |-> None]

\* lines 59-65: the cursor is on a closing parenthesis
LocCase1(d, line, st) ==
    IF st.cursor.col < Len(line) /\ line[st.cursor.col + 1] = ")"
    THEN LocBackward(d, st, Pos(st.cursor.line, st.cursor.col))
    ELSE st

\* lines 67-73: the character before the (possibly reassigned) cursor is ")"
LocCase2(d, line, st) ==
    IF st.err # None THEN st
    ELSE IF ~PyIndexOk(line, st.cursor.col - 1) THEN [st EXCEPT !.err = "IndexError"]
    ELSE IF PyIndex(line, st.cursor.col - 1) = ")"
    THEN LocBackward(d, st, Pos(st.cursor.line, st.cursor.col - 1))
    ELSE st

\* lines 58-73: the special cases
LocSpecial(d, line, cur) ==
    LET st0 == [cursor |-> cur, arg |-> NoRange, err |-> None]
    IN  IF cur.col > 0 THEN LocCase2(d, line, LocCase1(d, line, st0)) ELSE st0

\* lines 75-89: the word, and the argument list that follows it
LocWord(d, line, st) ==
    IF st.err # None
    THEN [status |-> st.err, word_range |-> NoRange, argument_range |-> NoRange]
    ELSE LET word_range == getBoundTextRangeSL(d, st.cursor)
             end == word_range.end.col
             argument_start == Pos(st.cursor.line, end)
         IN  IF /\ st.arg = NoRange /\ wordRangeIsValid(word_range)
                /\ end < Len(line) /\ line[end + 1] = "("
             THEN LET m == matchingParenthesisPosition(d, argument_start, "(")
                  IN  IF m.status # "found"
                      THEN [status |-> m.status, word_range |-> NoRange,
                            argument_range |-> NoRange]
                      ELSE [status |-> "ok", word_range |-> word_range,
                            argument_range |-> Range(argument_start, m.pos)]
             ELSE [status |-> "ok", word_range |-> word_range,
                   argument_range |-> st.arg]

wordAndArgumentAtCursorRanges(d, cur) ==
    LET line == d[cur.line + 1]
    IN  LocWord(d, line, LocSpecial(d, line, cur))

\* the cursor positions of a document: every column of every line, and its end
CursorPositions(d) ==
    UNION {{Pos(l, c) : c \in 0..Len(d[l + 1])} : l \in 0..(Len(d) - 1)}

(***************************************************************************)
(* The expansion registry (udf.py 139-189).  A file of the file system fs is  *)
(* [exists, broken, attrs]: attrs are the attributes of the module the     *)
(* file defines, in dir() order; a broken file raises when it is loaded.   *)
(* An expansions dict is a function from names (character sequences) to    *)
(* entries [func, path]; a path is <<directory, file name>>.               *)
(***************************************************************************)
EXPANDS_EXT == ".expand"
AllMime == <<"a", "l", "l">>
EmptyDict == [k \in {} |-> None]

\* mime.replace('/', '_') + _EXPANDS_EXT  (line 174)
mime_filename(mime) ==
    [i \in 1..Len(mime) |-> IF mime[i] = "/" THEN "_" ELSE mime[i]] \o <<EXPANDS_EXT>>

\* kate.applicationDirectories(_EXPANDS_BASE_DIR): the directories, in order
Dirs(nDirs) == 1..nDirs

NoFile == [exists |-> FALSE, broken |-> FALSE, attrs |-> <<>>]
BrokenFile == [exists |-> TRUE, broken |-> TRUE, attrs |-> <<>>]
Module(attrs) == [exists |-> TRUE, broken |-> FALSE, attrs |-> attrs]

\* the file at a path; a path the file system does not hold is no file
FileAt(fs, path) == IF path \in DOMAIN fs THEN fs[path] ELSE NoFile

\* one attribute of a loaded module
Attr(attr, dunder, isfunction, name, template, use_template_iface) ==
    [attr |-> attr, dunder |-> dunder, isfunction |-> isfunction, name |-> name,
     template |-> template, use_template_iface |-> use_template_iface]
Fn(attr, name) == Attr(attr, FALSE, TRUE, name, None, FALSE)

\* lines 152-154: the effect of one attribute of the module
LoadAttr(expansions, path, a) ==
    IF ~a.dunder /\ a.isfunction
    THEN [k \in (DOMAIN expansions) \cup {a.name} |->
             IF k = a.name THEN [func |-> [path |-> path, attr |-> a], path |-> path]
             ELSE expansions[k]]
    ELSE expansions

RECURSIVE LoadAttrs(_, _, _, _)
LoadAttrs(expansions, path, attrs, i) ==
    IF i > Len(attrs) THEN expansions
    ELSE LoadAttrs(LoadAttr(expansions, path, attrs[i]), path, attrs, i + 1)

\* lines 139-155; [raised, value]: imp.load_source raises on a broken file
loadExpansionsFromFile(fs, path) ==
    IF FileAt(fs, path).broken THEN [raised |-> TRUE, value |-> EmptyDict]
    ELSE [raised |-> FALSE, value |-> LoadAttrs(EmptyDict, path, FileAt(fs, path).attrs, 1)]

\* a merge in which the later duplicate overwrites the earlier entry
MergeEntry_Overwrites(result, exp_key, exp_tuple) ==
    [k \in (DOMAIN result) \cup {exp_key} |->
        IF k = exp_key THEN exp_tuple ELSE result[k]]

\* lines 162-167: one entry of the right dict
MergeEntry(result, exp_key, exp_tuple) ==
    IF exp_key \notin DOMAIN result
    THEN [k \in (DOMAIN result) \cup {exp_key} |->
             IF k = exp_key THEN exp_tuple ELSE result[k]]
    ELSE [result EXCEPT ![exp_key] = result[exp_key]]

RECURSIVE MergeKeys(_, _, _)
MergeKeys(result, right, keys) ==
    IF keys = {} THEN result
    ELSE LET k == CHOOSE x \in keys : TRUE
         IN  MergeKeys(MergeEntry(result, k, right[k]), right, keys \ {k})

\* lines 158-168
mergeExpansions(left, right) == MergeKeys(left, right, DOMAIN right)

RECURSIVE GetFromDirs(_, _, _, _, _)
\* lines 175-181: the directories from d on; [raised, value]
GetFromDirs(fs, nDirs, fname, d, expansions) ==
    IF d > nDirs THEN [raised |-> FALSE, value |-> expansions]
    ELSE IF FileAt(fs, <<d, fname>>).exists
    THEN LET loaded == loadExpansionsFromFile(fs, <<d, fname>>)
         IN  IF loaded.raised THEN [raised |-> TRUE, value |-> EmptyDict]
             ELSE GetFromDirs(fs, nDirs, fname, d + 1,
                              mergeExpansions(expansions, loaded.value))
    ELSE GetFromDirs(fs, nDirs, fname, d + 1, expansions)

\* lines 171-181
getExpansionsForMime(fs, nDirs, mime) ==
    GetFromDirs(fs, nDirs, mime_filename(mime), 1, EmptyDict)

\* lines 185-189, the body of getExpansionsFor without its cache
getExpansionsForBody(fs, nDirs, mime) ==
    LET specific == getExpansionsForMime(fs, nDirs, mime)
        all == getExpansionsForMime(fs, nDirs, AllMime)
    IN  IF specific.raised \/ all.raised THEN [raised |-> TRUE, value |-> EmptyDict]
        ELSE [raised |-> FALSE, value |-> mergeExpansions(specific.value, all.value)]

\* functools.lru_cache() keeps the maxsize = 128 most recently used results
LruMaxSize == 128

CacheIndex(c, mime) ==
    IF \E i \in 1..Len(c) : c[i].key = mime
    THEN CHOOSE i \in 1..Len(c) : c[i].key = mime
    ELSE 0

\* the cache after a miss stored `value`: the least recently used is dropped
CacheStore(c, mime, value) ==
    LET c1 == Append(c, [key |-> mime, value |-> value])
    IN  IF Len(c1) > LruMaxSize THEN Tail(c1) ELSE c1

\* the cache after a hit at index i: the entry becomes the most recently used
CacheTouch(c, i) ==
    SubSeq(c, 1, i - 1) \o SubSeq(c, i + 1, Len(c)) \o <<c[i]>>

\* line 184-189: getExpansionsFor(mime) through its lru_cache;
\* [cache, hit, raised, value]
getExpansionsFor(c, fs, nDirs, mime) ==
    LET i == CacheIndex(c, mime)
        r == getExpansionsForBody(fs, nDirs, mime)
    IN  IF i # 0
        THEN [cache |-> CacheTouch(c, i), hit |-> TRUE, raised |-> FALSE,
              value |-> c[i].value]
        ELSE IF r.raised
        THEN [cache |-> c, hit |-> FALSE, raised |-> TRUE, value |-> EmptyDict]
        ELSE [cache |-> CacheStore(c, mime, r.value), hit |-> FALSE,
              raised |-> FALSE, value |-> r.value]

\* number of times the expansion set of each media type was built
CountBuild(b, mime) ==
    IF mime \in DOMAIN b THEN [b EXCEPT ![mime] = @ + 1]
    ELSE [m \in (DOMAIN b) \cup {mime} |-> IF m = mime THEN 1 ELSE b[m]]

(***************************************************************************)
(* Argument parsing of expandAtCursor (udf.py 274-286).                    *)
(***************************************************************************)
Whitespace == {" ", NL}

RECURSIVE lstrip(_)
lstrip(t) == IF t # <<>> /\ t[1] \in Whitespace THEN lstrip(Tail(t)) ELSE t

RECURSIVE rstrip(_)
rstrip(t) ==
    IF t # <<>> /\ t[Len(t)] \in Whitespace THEN rstrip(SubSeq(t, 1, Len(t) - 1)) ELSE t

\* str.strip()
strip(t) == rstrip(lstrip(t))

RECURSIVE split(_, _)
\* str.split(sep)
split(t, sep) ==
    IF \A i \in 1..Len(t) : t[i] # sep THEN <<t>>
    ELSE LET k == CHOOSE i \in 1..Len(t) : t[i] = sep /\ \A j \in 1..(i - 1) : t[j] # sep
         IN  <<SubSeq(t, 1, k - 1)>> \o split(SubSeq(t, k + 1, Len(t)), sep)

StripAll(items) == [i \in 1..Len(items) |-> strip(items[i])]

\* line 278: the stripped, non-empty items of text[1:-1].split(',')
preArgsOf(argText) ==
    SelectSeq(StripAll(split(SubSeq(argText, 2, Len(argText) - 1), ",")),
              LAMBDA a : a # <<>>)

RECURSIVE ClassifyArgs(_, _, _)
\* lines 281-286; acc = [arguments, namedArgs, raised]: the unpacking of
\* line 283 raises ValueError unless the item splits into two parts at "="
ClassifyArgs(preArgs, i, acc) ==
    IF i > Len(preArgs) \/ acc.raised THEN acc
    ELSE LET arg == preArgs[i]
             parts == StripAll(split(arg, "="))
         IN  IF \E j \in 1..Len(arg) : arg[j] = "="
             THEN IF Len(parts) # 2
                  THEN [acc EXCEPT !.raised = TRUE]
                  ELSE ClassifyArgs(preArgs, i + 1,
                           [acc EXCEPT !.namedArgs =
                               [k \in (DOMAIN acc.namedArgs) \cup {parts[1]} |->
                                   IF k = parts[1] THEN parts[2] ELSE acc.namedArgs[k]]])
             ELSE ClassifyArgs(preArgs, i + 1,
                      [acc EXCEPT !.arguments = Append(acc.arguments, arg)])

parseArguments(argText) ==
    ClassifyArgs(preArgsOf(argText), 1,
                 [arguments |-> <<>>, namedArgs |-> EmptyDict, raised |-> FALSE])

(***************************************************************************)
(* expandAtCursor (udf.py 249-393), one step of the attempt per action.    *)
(* pc: "start", "located", "resolved", "argsParsed", "invoked", "ready",   *)
(* "applied"; "aborted" after a reported error and return; "crashed" after *)
(* an exception that expandAtCursor does not catch (att.crashAt names the  *)
(* step).                                                                  *)
(***************************************************************************)
DocMime == <<"t", "/", "x">>        \* document.mimeType()
TemplateName == "t.tpl"

NoFunc == [path |-> <<0, <<>>>>, attr |-> Attr("", FALSE, FALSE, <<>>, None, FALSE)]
NoReplacement == [kind |-> "none", text |-> <<>>]
NoLoc == [status |-> "none", word_range |-> NoRange, argument_range |-> NoRange]

AttInit ==
    [loc |-> NoLoc, word |-> <<>>, func |-> NoFunc, arguments |-> <<>>,
     namedArgs |-> EmptyDict, replacement |-> NoReplacement, crashAt |-> "",
     via |-> "", ti2 |-> FALSE]

Popup(title, icon) == [title |-> title, icon |-> icon]

\* what the expansion callable may do: raise, or return a text, a dict or
\* something else
Replacements == {<<"z">>, <<"z", NL, "z">>}
CallOutcomes ==
    {[kind |-> "raise", text |-> <<>>], [kind |-> "dict", text |-> <<>>],
     [kind |-> "other", text |-> <<>>]}
    \cup {[kind |-> "text", text |-> r] : r \in Replacements}

\* a removal that leaves the argument list in the document
RemoveOldText_KeepsArguments(d, loc) == removeText(d, loc.word_range)

\* lines 375-377: the document after the old text is removed
RemoveOldText(d, loc) ==
    LET d1 == IF loc.argument_range # NoRange
              THEN removeText(d, loc.argument_range) ELSE d
    IN  removeText(d1, loc.word_range)

\* lines 375-377: the removeText calls made
RemoveEdits(loc) ==
    (IF loc.argument_range # NoRange
     THEN <<[op |-> "removeText", range |-> loc.argument_range]>> ELSE <<>>)
    \o <<[op |-> "removeText", range |-> loc.word_range]>>

\* lines 388 and 393: where the replacement is inserted
InsertPosition(loc) == loc.word_range.start

\* lines 256-262
ExpandLocate ==
    /\ pc = "start"
    /\ LET loc == wordAndArgumentAtCursorRanges(doc, cursor)
       IN  /\ att' = [att EXCEPT !.loc = loc,
                                 !.crashAt = IF loc.status = "IndexError"
                                             THEN "locate" ELSE ""]
           /\ pc' = IF loc.status = "ok" THEN "located"
                    ELSE IF loc.status \in {"eof", "eol"} THEN "aborted"
                    ELSE "crashed"
           /\ popups' = IF loc.status \in {"eof", "eol"}
                        THEN Append(popups, Popup("Parse error", "dialog-warning"))
                        ELSE popups
    /\ UNCHANGED <<doc, doc0, cursor, edits, calls>>
    /\ UNCHANGED scanVars
    /\ UNCHANGED <<argVars, tooltips, lifecycleVars>>
    /\ UNCHANGED registryVars

\* a lookup that goes on with a word that is not an expansion
ExpandResolve_IgnoresMissing ==
    /\ pc = "located"
    /\ LET word == text(doc, att.loc.word_range)
           r == getExpansionsFor(cache, files, NDirs, DocMime)
       IN  /\ cache' = r.cache
           /\ built' = IF r.hit \/ r.raised THEN built ELSE CountBuild(built, DocMime)
           /\ req' = [mime |-> DocMime, hit |-> r.hit, raised |-> r.raised,
                      value |-> r.value]
           /\ pc' = "resolved"
           /\ att' = [att EXCEPT !.word = word,
                                 !.func = IF word \in DOMAIN r.value
                                          THEN r.value[word].func ELSE NoFunc]
           /\ popups' = popups
    /\ UNCHANGED <<doc, doc0, cursor, edits, calls, files>>
    /\ UNCHANGED scanVars
    /\ UNCHANGED <<argVars, tooltips, lifecycleVars>>

\* lines 263-273
ExpandResolve ==
    /\ pc = "located"
    /\ LET word == text(doc, att.loc.word_range)
           r == getExpansionsFor(cache, files, NDirs, DocMime)
       IN  /\ cache' = r.cache
           /\ built' = IF r.hit \/ r.raised THEN built ELSE CountBuild(built, DocMime)
           /\ req' = [mime |-> DocMime, hit |-> r.hit, raised |-> r.raised,
                      value |-> r.value]
           /\ IF r.raised
              THEN /\ pc' = "crashed"
                   /\ att' = [att EXCEPT !.word = word, !.crashAt = "resolve"]
                   /\ popups' = popups
              ELSE IF word \in DOMAIN r.value
              THEN /\ pc' = "resolved"
                   /\ att' = [att EXCEPT !.word = word, !.func = r.value[word].func]
                   /\ popups' = popups
              ELSE /\ pc' = "aborted"
                   /\ att' = [att EXCEPT !.word = word]
                   /\ popups' = Append(popups, Popup("Error", "dialog-warning"))
    /\ UNCHANGED <<doc, doc0, cursor, edits, calls, files>>
    /\ UNCHANGED scanVars
    /\ UNCHANGED <<argVars, tooltips, lifecycleVars>>

\* lines 274-286
ExpandParseArgs ==
    /\ pc = "resolved"
    /\ LET parsed == IF att.loc.argument_range # NoRange
                     THEN parseArguments(text(doc, att.loc.argument_range))
                     ELSE [arguments |-> <<>>, namedArgs |-> EmptyDict, raised |-> FALSE]
       IN  IF parsed.raised
           THEN /\ pc' = "crashed"
                /\ att' = [att EXCEPT !.crashAt = "parseArgs"]
           ELSE /\ pc' = "argsParsed"
                /\ att' = [att EXCEPT !.arguments = parsed.arguments,
                                      !.namedArgs = parsed.namedArgs]
    /\ UNCHANGED <<doc, doc0, cursor, popups, edits, calls>>
    /\ UNCHANGED scanVars
    /\ UNCHANGED <<argVars, tooltips, lifecycleVars>>
    /\ UNCHANGED registryVars

\* an attempt that removes the old text before it calls the callable
ExpandInvoke_RemovesFirst ==
    /\ pc = "argsParsed"
    /\ \E outcome \in CallOutcomes :
          IF outcome.kind = "raise"
          THEN /\ pc' = "aborted"
               /\ popups' = Append(popups, Popup("Error", "dialog-error"))
               /\ att' = att
          ELSE /\ pc' = "invoked"
               /\ popups' = popups
               /\ att' = [att EXCEPT !.replacement = outcome]
    /\ calls' = calls + 1
    /\ doc' = RemoveOldText(doc, att.loc)
    /\ edits' = edits \o RemoveEdits(att.loc)
    /\ UNCHANGED <<doc0, cursor>>
    /\ UNCHANGED scanVars
    /\ UNCHANGED <<argVars, tooltips, lifecycleVars>>
    /\ UNCHANGED registryVars

\* lines 289-331: the call of the expansion callable
ExpandInvoke ==
    /\ pc = "argsParsed"
    /\ \E outcome \in CallOutcomes :
          IF outcome.kind = "raise"
          THEN /\ pc' = "aborted"
               /\ popups' = Append(popups, Popup("Error", "dialog-error"))
               /\ att' = att
          ELSE /\ pc' = "invoked"
               /\ popups' = popups
               /\ att' = [att EXCEPT !.replacement = outcome]
    /\ calls' = calls + 1
    /\ UNCHANGED <<doc, doc0, cursor, edits>>
    /\ UNCHANGED scanVars
    /\ UNCHANGED <<argVars, tooltips, lifecycleVars>>
    /\ UNCHANGED registryVars

\* lines 334-371: the template of the callable, if it declares one
ExpandRender ==
    /\ pc = "invoked"
    /\ IF att.func.attr.template = None
       THEN /\ pc' = "ready"
            /\ UNCHANGED <<att, popups>>
       ELSE IF att.replacement.kind # "dict"
       THEN \* line 335: the assertion fails
            /\ pc' = "crashed"
            /\ att' = [att EXCEPT !.crashAt = "render"]
            /\ popups' = popups
       ELSE \E found \in BOOLEAN, rendered \in {<<>>} \cup Replacements :
            IF ~found
            THEN \* lines 338-344: kate.findApplicationResource found no file
                 /\ pc' = "aborted"
                 /\ popups' = Append(popups, Popup("Error", "dialog-error"))
                 /\ att' = att
            ELSE IF rendered = <<>>
            THEN \* lines 360-371: jinja2.TemplateError
                 /\ pc' = "aborted"
                 /\ popups' = Append(popups, Popup("Error", "dialog-error"))
                 /\ att' = att
            ELSE /\ pc' = "ready"
                 /\ popups' = popups
                 /\ att' = [att EXCEPT !.replacement = [kind |-> "text", text |-> rendered]]
    /\ UNCHANGED <<doc, doc0, cursor, edits, calls>>
    /\ UNCHANGED scanVars
    /\ UNCHANGED <<argVars, tooltips, lifecycleVars>>
    /\ UNCHANGED registryVars

\* an insertion that never uses the template interface
InsertOp_AlwaysPlain(func, ti2) == "insertText"

\* lines 383-393: the call that inserts the replacement; ti2 tells whether
\* view.templateInterface2() is not None
InsertOp(func, ti2) ==
    IF func.attr.use_template_iface /\ ti2 THEN "insertTemplateText" ELSE "insertText"

\* lines 373-393: the edit
ExpandApply ==
    /\ pc = "ready"
    /\ \E ti2 \in BOOLEAN :   \* view.templateInterface2() is not None
          LET removed == RemoveOldText(doc, att.loc)
              op == InsertOp(att.func, ti2)
          IN  IF att.replacement.kind # "text"
              THEN \* the insertion raises TypeError after the removals
                   /\ pc' = "crashed"
                   /\ doc' = removed
                   /\ edits' = edits \o RemoveEdits(att.loc)
                   /\ att' = [att EXCEPT !.crashAt = "apply"]
              ELSE /\ pc' = "applied"
                   /\ doc' = insertText(removed, InsertPosition(att.loc),
                                        att.replacement.text)
                   /\ edits' = edits \o RemoveEdits(att.loc)
                                 \o <<[op |-> op, range |->
                                         Range(InsertPosition(att.loc),
                                               InsertPosition(att.loc))]>>
                   /\ att' = [att EXCEPT !.via = op, !.ti2 = ti2]
    /\ UNCHANGED <<doc0, cursor, popups, calls>>
    /\ UNCHANGED scanVars
    /\ UNCHANGED <<argVars, tooltips, lifecycleVars>>
    /\ UNCHANGED registryVars

(***************************************************************************)
(* The file systems of the model.                                          *)
(***************************************************************************)

RegistryMimes == {DocMime, <<"t", "_", "x">>, AllMime}
FileNames == {mime_filename(m) : m \in RegistryMimes}
Paths == Dirs(NDirs) \X FileNames

NameA == <<"a">>
NameB == <<"a", "a">>
FileChoices ==
    { NoFile, BrokenFile,
      Module(<<Fn("a", NameA)>>),
      Module(<<Fn("a", NameA), Fn("b", NameB)>>),
      Module(<<Attr("__c", TRUE, TRUE, NameA, None, FALSE),
               Fn("b", NameA),
               Attr("c", FALSE, FALSE, NameB, None, FALSE)>>) }

\* the files of the editor runs: the first directory holds the expansions
\* of the document's media type, the second the expansions of every type
EditorFiles ==
    [p \in Paths |->
        IF p = <<1, mime_filename(DocMime)>>
        THEN Module(<<Fn("a", NameA),
                      Attr("aa", FALSE, TRUE, NameB, TemplateName, FALSE),
                      Attr("f", FALSE, TRUE, <<"f">>, TemplateName, TRUE),
                      Attr("foo", FALSE, TRUE, <<"f", "o", "o">>, None, TRUE)>>)
        ELSE IF p = <<2, mime_filename(AllMime)>>
        THEN Module(<<Fn("a", NameA), Fn("today", TodayLine)>>)
        ELSE NoFile]

NoReq == [mime |-> <<>>, hit |-> FALSE, raised |-> FALSE, value |-> EmptyDict]

ScanIdle == [pos |-> Pos(0, 0), level |-> 0, state |-> None, status |-> "idle"]

NoParsed == [arguments |-> <<>>, namedArgs |-> EmptyDict, raised |-> FALSE, done |-> FALSE]

\* the decorators of kate/__init__.py that are _simpleEventListeners
Events == {"init", "unload", "viewChanged", "viewCreated"}

\* the functions that plugins decorate, and the KActions they create
Funcs == 1..NFuncs
Actions == 1..NActions

\* pateDie has not run: nothing pending, nothing called, nothing printed
DieIdle ==
    [pc |-> "loaded", pending |-> {}, called |-> [f \in Funcs |-> 0], atDie |-> {},
     stderr |-> 0, event |-> ""]

InitIdleArgs == argInput = <<>> /\ argOutput = NoParsed

InitIdleLifecycle ==
    /\ functions = [e \in Events |-> {}]
    /\ actions = {}
    /\ die = DieIdle

(***************************************************************************)
(* Spec: one expandAtCursor attempt on any document, from any cursor.      *)
(***************************************************************************)
Init ==
    /\ doc \in Docs
    /\ doc0 = doc
    /\ cursor \in CursorPositions(doc)
    /\ pc = "start"
    /\ att = AttInit
    /\ popups = <<>>
    /\ edits = <<>>
    /\ calls = 0
    /\ files = EditorFiles
    /\ cache = <<>>
    /\ built = EmptyDict
    /\ req = NoReq
    /\ scArg = Pos(0, 0)
    /\ scOpening = "("
    /\ sc = ScanIdle
    /\ InitIdleArgs
    /\ tooltips = <<>>
    /\ InitIdleLifecycle

Next ==
    \/ ExpandLocate
    \/ ExpandResolve
    \/ ExpandParseArgs
    \/ ExpandInvoke
    \/ ExpandRender
    \/ ExpandApply

Spec == Init /\ [][Next]_vars

(***************************************************************************)
(* SpecScan: a call of matchingParenthesisPosition on any document, from   *)
(* any character of it, in either direction, one loop iteration per step.  *)
(***************************************************************************)
InitScan ==
    /\ doc \in Docs
    /\ scOpening \in {"(", ")"}
    /\ scArg \in CharPositions(doc)
    /\ sc = ScanInit(scArg)
    /\ doc0 = doc
    /\ cursor = scArg
    /\ pc = "scan"
    /\ att = AttInit
    /\ popups = <<>>
    /\ edits = <<>>
    /\ calls = 0
    /\ files = EditorFiles
    /\ cache = <<>>
    /\ built = EmptyDict
    /\ req = NoReq
    /\ InitIdleArgs
    /\ tooltips = <<>>
    /\ InitIdleLifecycle

ScanStep ==
    /\ sc.status = "run"
    /\ sc' = ScanIter(doc, scOpening, sc)
    /\ scArg' = CallerPosition(scArg, sc')
    /\ UNCHANGED scOpening
    /\ UNCHANGED editorVars
    /\ UNCHANGED <<argVars, tooltips, lifecycleVars>>
    /\ UNCHANGED registryVars

NextScan == ScanStep

SpecScan == InitScan /\ [][NextScan]_vars

(***************************************************************************)
(* SpecRegistry: getExpansionsFor calls, for any media types in any order, *)
(* on any file system.                                                     *)
(***************************************************************************)
\* @functools.lru_cache() def getExpansionsFor(mime)  (lines 184-189)
GetExpansions(mime) ==
    LET r == getExpansionsFor(cache, files, NDirs, mime)
    IN  /\ cache' = r.cache
        /\ built' = IF r.hit \/ r.raised THEN built ELSE CountBuild(built, mime)
        /\ req' = [mime |-> mime, hit |-> r.hit, raised |-> r.raised, value |-> r.value]
        /\ UNCHANGED files
        /\ UNCHANGED editorVars
        /\ UNCHANGED scanVars
        /\ UNCHANGED <<argVars, tooltips, lifecycleVars>>

InitIdleEditor ==
    /\ doc = <<TodayLine>>
    /\ doc0 = doc
    /\ cursor = Pos(0, 0)
    /\ pc = "registry"
    /\ att = AttInit
    /\ popups = <<>>
    /\ edits = <<>>
    /\ calls = 0
    /\ scArg = Pos(0, 0)
    /\ scOpening = "("
    /\ sc = ScanIdle
    /\ InitIdleArgs
    /\ tooltips = <<>>
    /\ InitIdleLifecycle

InitRegistry ==
    /\ files \in [Paths -> FileChoices]
    /\ cache = <<>>
    /\ built = EmptyDict
    /\ req = NoReq
    /\ InitIdleEditor

RequestAny == \E mime \in RegistryMimes : GetExpansions(mime)

NextRegistry == RequestAny

SpecRegistry == InitRegistry /\ [][NextRegistry]_vars

(***************************************************************************)
(* SpecCache: the documents of one media type (DocMime) are expanded again *)
(* and again while documents of other media types, numbered in the order   *)
(* of their first request, are expanded in between.                        *)
(***************************************************************************)
Digit == <<"0", "1", "2", "3", "4", "5", "6", "7", "8", "9">>

RECURSIVE Digits(_)
Digits(n) == IF n < 10 THEN <<Digit[n + 1]>> ELSE Digits(n \div 10) \o <<Digit[(n % 10) + 1]>>

MimeNo(n) == <<"m", "/">> \o Digits(n)

CacheFiles ==
    [p \in Paths |->
        IF p = <<1, mime_filename(DocMime)>> THEN Module(<<Fn("a", NameA)>>) ELSE NoFile]

InitCache ==
    /\ files = CacheFiles
    /\ cache = <<>>
    /\ built = EmptyDict
    /\ req = NoReq
    /\ InitIdleEditor

OtherTypes == Cardinality((DOMAIN built) \ {DocMime})
BuildsLeft == \A m \in DOMAIN built : built[m] < MaxBuilds

RequestObserved ==
    /\ BuildsLeft
    /\ GetExpansions(DocMime)

RequestOther ==
    /\ BuildsLeft
    /\ OtherTypes < MaxMimes
    /\ GetExpansions(MimeNo(OtherTypes + 1))

NextCache == RequestObserved \/ RequestOther

SpecCache == InitCache /\ [][NextCache]_vars

(***************************************************************************)
(* Reference notions used to state the properties: the characters of a     *)
(* document in document order, and delimiter matching on that flat         *)
(* sequence (no lines, no wrapping).                                       *)
(***************************************************************************)
LineItems(d, l) ==
    [c \in 1..Len(d[l + 1]) |-> [ch |-> d[l + 1][c], pos |-> Pos(l, c - 1)]]

RECURSIVE ItemsFrom(_, _)
ItemsFrom(d, l) ==
    IF l >= Len(d) THEN <<>> ELSE LineItems(d, l) \o ItemsFrom(d, l + 1)

Items(d) == ItemsFrom(d, 0)

IndexOf(items, p) == CHOOSE i \in 1..Len(items) : items[i].pos = p

RECURSIVE Depth(_, _)
\* number of "(" minus number of ")" among the first n characters
Depth(items, n) ==
    IF n = 0 THEN 0
    ELSE Depth(items, n - 1)
         + (IF items[n].ch = "(" THEN 1 ELSE IF items[n].ch = ")" THEN -1 ELSE 0)

Balanced(d) ==
    LET items == Items(d)
    IN  /\ \A n \in 0..Len(items) : Depth(items, n) >= 0
        /\ Depth(items, Len(items)) = 0

NoQuotes(d) == \A i \in 1..Len(Items(d)) : Items(d)[i].ch \notin Quotes

RECURSIVE RefWalk(_, _, _, _, _, _)
\* the delimiter matching `opening` from index i on: idx is the index of the
\* match (0: none), quoteAtEol tells whether a quoted span was open where the
\* walk left a line
RefWalk(items, i, opening, level, state, quoteAtEol) ==
    IF i < 1 \/ i > Len(items) THEN [idx |-> 0, quoteAtEol |-> quoteAtEol]
    ELSE LET ch == items[i].ch
             j == i + deltaOf(opening)
             inQ == state \in Quotes
             lvl == IF inQ THEN level
                    ELSE IF ch = opening THEN level + 1
                    ELSE IF ch = closingOf(opening) THEN level - 1 ELSE level
             st == IF inQ THEN (IF ch = state THEN None ELSE state)
                   ELSE IF ch \in Quotes THEN ch ELSE state
             leaves == \/ j < 1 \/ j > Len(items)
                       \/ items[j].pos.line # items[i].pos.line
         IN  IF ~inQ /\ ch = closingOf(opening) /\ lvl = 0
             THEN [idx |-> i, quoteAtEol |-> quoteAtEol]
             ELSE RefWalk(items, j, opening, lvl, st,
                          quoteAtEol \/ (leaves /\ st \in Quotes))

RefMatch(d, p, opening) == RefWalk(Items(d), IndexOf(Items(d), p), opening, 0, None, FALSE)

\* what matchingParenthesisPosition returns for a match at position q
Returned(opening, q) == IF opening = "(" THEN Pos(q.line, q.col + 1) ELSE q

ScanDone == sc.status # "run"
ScanLines == 0..(Len(doc) - 1)

(***************************************************************************)
(* C3: in a document with balanced parentheses and no quote characters,    *)
(* the forward scan from the "(" at p identifies the ")" at q exactly when *)
(* the backward scan from the ")" at q returns p.                          *)
(***************************************************************************)
C3_ForwardBackwardInverse ==
    (ScanDone /\ NoQuotes(doc) /\ Balanced(doc) /\ character(doc, scArg) = scOpening)
    => \A o \in {p \in CharPositions(doc) : character(doc, p) = closingOf(scOpening)} :
          LET back == matchingParenthesisPosition(doc, o, closingOf(scOpening))
          IN  (sc.status = "found" /\ sc.pos = Returned(scOpening, o))
              <=> (back.status = "found" /\ back.pos = Returned(closingOf(scOpening), scArg))

C3_Witness ==
    /\ ScanDone /\ NoQuotes(doc) /\ Balanced(doc)
    /\ scOpening = "(" /\ character(doc, scArg) = "("
    /\ sc.status = "found" /\ sc.pos.line > scArg.line

(***************************************************************************)
(* C4: inside a quoted span a parenthesis never changes the nesting level  *)
(* and a quote of the other kind never changes the quote state; so in      *)
(* foo("a)b", c) the scan from the outer "(" ends one past the final ")".  *)
(***************************************************************************)
C4_QuotedDelimitersIgnored ==
    /\ [][(sc.status = "run" /\ sc.state \in Quotes)
          => LET ch == character(doc, sc.pos)
             IN  /\ ch \in {"(", ")"} => sc'.level = sc.level
                 /\ (ch \in Quotes /\ ch # sc.state) => sc'.state = sc.state]_vars
    /\ []((doc = <<FooQuotedLine>> /\ scArg = Pos(0, 3) /\ scOpening = "(" /\ ScanDone)
          => (sc.status = "found" /\ sc.pos = Pos(0, 13)))

C4_Witness ==
    /\ doc = <<FooQuotedLine>> /\ scArg = Pos(0, 3) /\ scOpening = "("
    /\ sc.status = "found" /\ sc.pos = Pos(0, 13)

(***************************************************************************)
(* C5: ParseError "end of file reached" is raised exactly when the scan    *)
(* ran past the last line (before the first line when backward), and       *)
(* "end of line reached while searching for <quote>" exactly when the scan *)
(* left a line for an existing adjacent line inside a quoted span.         *)
(***************************************************************************)
JustWrapped ==
    IF scOpening = "(" THEN sc.pos.line > scArg.line /\ sc.pos.col = 0
    ELSE sc.pos.line < scArg.line /\ sc.pos.col = lineLength(doc, sc.pos.line) - 1

C5_ReasonsInTheirSituations ==
    /\ sc.status = "eof" => sc.pos.line \notin ScanLines
    /\ sc.status = "eol" => (sc.state \in Quotes /\ sc.pos.line \in ScanLines)
    /\ (JustWrapped /\ sc.state \in Quotes /\ sc.pos.line \in ScanLines)
          => sc.status = "eol"
    /\ sc.pos.line \notin ScanLines => sc.status = "eof"

(***************************************************************************)
(* C6: when the matching delimiter lies on another line in the scan        *)
(* direction and no quoted span is open where a line is left, the scan     *)
(* returns the match, whatever the lines in between hold; "end of file     *)
(* reached" is raised only when there is no further line.                  *)
(***************************************************************************)
C6_ScanCrossesLines ==
    (ScanDone /\ character(doc, scArg) = scOpening)
    => LET ref == RefMatch(doc, scArg, scOpening)
           items == Items(doc)
       IN  /\ (ref.idx # 0 /\ ~ref.quoteAtEol /\ items[ref.idx].pos.line # scArg.line)
                 => (sc.status = "found"
                     /\ sc.pos = Returned(scOpening, items[ref.idx].pos))
           /\ sc.status = "eof" => sc.pos.line \notin ScanLines

(***************************************************************************)
(* C1: no removeText / insertText is performed before locating, lookup,    *)
(* argument parsing, invocation and template rendering have all succeeded, *)
(* and an attempt that aborts leaves the document as it was.               *)
(***************************************************************************)
BeforeEdit ==
    \/ pc \in {"start", "located", "resolved", "argsParsed", "invoked", "ready", "aborted"}
    \/ (pc = "crashed" /\ att.crashAt # "apply")

C1_NoEditBeforeAllSucceeded ==
    /\ BeforeEdit => (doc = doc0 /\ edits = <<>>)
    /\ edits # <<>> =>
          /\ att.loc.status = "ok"
          /\ att.func # NoFunc
          /\ calls = 1
          /\ att.func.attr.template # None => att.replacement.kind = "text"
          /\ att.replacement.kind # "none"

C1_Witness ==
    /\ pc = "aborted" /\ calls = 1 /\ popups # <<>>
    /\ att.loc.argument_range # NoRange
    /\ doc = doc0

(***************************************************************************)
(* C2: after a successful expansion with plain insertion the document is   *)
(* the original one with the text of word_range and of argument_range (if  *)
(* any) removed and the replacement put at the start of the word; no other *)
(* character changes.                                                      *)
(***************************************************************************)
C2_PlainInsertionReplacesInvocation ==
    (pc = "applied" /\ att.via = "insertText") =>
        LET t0 == JoinLines(doc0)
            w == att.loc.word_range
            a == att.loc.argument_range
            wordText == text(doc0, w)
            argText == IF a = NoRange THEN <<>> ELSE text(doc0, a)
            from == Offset(doc0, w.start)
            n == Len(wordText) + Len(argText)
        IN  /\ SubSeq(t0, from + 1, from + n) = wordText \o argText
            /\ JoinLines(doc) = SubSeq(t0, 1, from) \o att.replacement.text
                                  \o SubSeq(t0, from + n + 1, Len(t0))

C2_Witness ==
    /\ pc = "applied" /\ att.via = "insertText"
    /\ att.loc.argument_range # NoRange
    /\ cursor = att.loc.argument_range.end
    /\ att.loc.argument_range.end.line > att.loc.word_range.start.line
    /\ doc # doc0

(***************************************************************************)
(* Invocations in a document: an identifier [s, e) of line l followed by   *)
(* "(" whose matching ")" exists.                                          *)
(***************************************************************************)
IsWordAt(d, l, s, e) ==
    LET line == d[l + 1]
    IN  /\ s < e /\ e <= Len(line)
        /\ \A j \in (s + 1)..e : IsIdentifier(line[j])
        /\ (s = 0 \/ ~IsIdentifier(line[s]))
        /\ (e = Len(line) \/ ~IsIdentifier(line[e + 1]))

Invocations(d) ==
    {iv \in UNION {[line : {l}, s : 0..Len(d[l + 1]), e : 0..Len(d[l + 1])] :
                      l \in 0..(Len(d) - 1)} :
        /\ IsWordAt(d, iv.line, iv.s, iv.e)
        /\ character(d, Pos(iv.line, iv.e)) = "("
        /\ RefMatch(d, Pos(iv.line, iv.e), "(").idx # 0}

\* the position of the ")" that closes the argument list of an invocation
ClosingOf(d, iv) == Items(d)[RefMatch(d, Pos(iv.line, iv.e), "(").idx].pos

ExpectedLoc(d, iv) ==
    [status |-> "ok",
     word_range |-> [start |-> Pos(iv.line, iv.s), end |-> Pos(iv.line, iv.e)],
     argument_range |-> [start |-> Pos(iv.line, iv.e),
                         end |-> Pos(ClosingOf(d, iv).line, ClosingOf(d, iv).col + 1)]]

Located == att.loc.status # "none"

C8_SameRangesFromClosingParen ==
    Located =>
        \A iv \in Invocations(doc0) :
            LET q == ClosingOf(doc0, iv)
                atFirst == wordAndArgumentAtCursorRanges(doc0, Pos(iv.line, iv.s))
            IN  (/\ atFirst.status = "ok"
                 /\ ~RefMatch(doc0, Pos(iv.line, iv.e), "(").quoteAtEol
                 /\ \/ cursor = q
                    \/ (cursor = Pos(q.line, q.col + 1) /\ character(doc0, cursor) # ")"))
                => att.loc = atFirst

(***************************************************************************)
(* C9: getExpansionsFor(mime) returns, for every name defined in a         *)
(* discovered file, the entry of the earliest source (the files of the     *)
(* type in directory order, then the "all" files in directory order); its  *)
(* keys are the union of the sources; duplicates never raise.              *)
(***************************************************************************)
SourcePath(mime, i) ==
    IF i <= NDirs THEN <<i, mime_filename(mime)>> ELSE <<i - NDirs, mime_filename(AllMime)>>

DefinedIn(fs, path) ==
    IF FileAt(fs, path).exists /\ ~FileAt(fs, path).broken
    THEN loadExpansionsFromFile(fs, path).value ELSE EmptyDict

SourcesBroken(fs, mime) ==
    \E i \in 1..(2 * NDirs) : FileAt(fs, SourcePath(mime, i)).broken

EarliestSources(fs, mime) ==
    LET keys == UNION {DOMAIN DefinedIn(fs, SourcePath(mime, i)) : i \in 1..(2 * NDirs)}
        first(k) == CHOOSE i \in 1..(2 * NDirs) :
                       /\ k \in DOMAIN DefinedIn(fs, SourcePath(mime, i))
                       /\ \A j \in 1..(i - 1) : k \notin DOMAIN DefinedIn(fs, SourcePath(mime, j))
    IN  [k \in keys |-> DefinedIn(fs, SourcePath(mime, first(k)))[k]]

C9_EarliestSourceWins ==
    req.mime # <<>> =>
        /\ req.raised <=> SourcesBroken(files, req.mime)
        /\ ~req.raised => req.value = EarliestSources(files, req.mime)

C9_Witness ==
    /\ req.mime = DocMime /\ ~req.raised /\ ~req.hit
    /\ \E k \in DOMAIN req.value :
          /\ req.value[k].path = <<2, mime_filename(DocMime)>>
          /\ k \in DOMAIN DefinedIn(files, <<1, mime_filename(AllMime)>>)
          /\ k \in DOMAIN DefinedIn(files, <<2, mime_filename(AllMime)>>)
          /\ DefinedIn(files, <<1, mime_filename(AllMime)>>)[k].func.attr.attr
                # req.value[k].func.attr.attr

(***************************************************************************)
(* C10: the expansion set of a media type is built only on the first       *)
(* successful request for it and never evicted, however many other media   *)
(* types are requested in between.                                         *)
(***************************************************************************)
C10_BuiltOnceNeverEvicted ==
    /\ \A m \in DOMAIN built : built[m] <= 1
    /\ \A m \in DOMAIN built : CacheIndex(cache, m) # 0

(***************************************************************************)
(* C11: when a file of a media type cannot be loaded, the other files of   *)
(* the search directories and the "all" files are still loaded and merged: *)
(* the names they define are in the mapping the request yields.            *)
(***************************************************************************)
C11_LoadFailureDoesNotStopOthers ==
    (req.mime # <<>> /\ SourcesBroken(files, req.mime)) =>
        \A i \in 1..(2 * NDirs) :
            DOMAIN DefinedIn(files, SourcePath(req.mime, i)) \subseteq DOMAIN req.value

(***************************************************************************)
(* C12: an expandAtCursor attempt that ends without reaching the final     *)
(* edit has reported an error through kate.ui.popup before it ended,       *)
(* whichever step failed.                                                  *)
(***************************************************************************)
EndedBeforeEdit == pc = "aborted" \/ (pc = "crashed" /\ att.crashAt # "apply")

C12_EveryFailureReported == EndedBeforeEdit => popups # <<>>

(***************************************************************************)
(* SpecArgs: the argument parsing of expandAtCursor (udf.py 274-286) on    *)
(* any argument text: a text that starts with "(" and ends with the ")"    *)
(* that matchingParenthesisPosition finds for it.                          *)
(***************************************************************************)
MaxArgLen == 4      \* enumerated argument lists hold at most MaxArgLen characters

ArgAlphabet == {"a", ",", "=", " ", "(", ")", "\""}

ArgExample == <<"(", "a", ",", " ", "b", "=", "2", ",", " ", "c", " ", "=", " ", "3", ")">>

ArgSamples ==
    { ArgExample,
      <<"(", "a", "=", "b", "=", "c", ")">>,
      <<"(", "f", "(", "a", ",", "b", ")", ",", "c", ")">>,
      <<"(", "\"", "a", ",", "b", "\"", ",", "c", ")">>,
      <<"(", "a", ",", ",", " ", "b", " ", ")">> }

IsArgumentText(t) ==
    LET m == matchingParenthesisPosition(<<t>>, Pos(0, 0), "(")
    IN  m.status = "found" /\ m.pos = Pos(0, Len(t))

ArgTexts ==
    {t \in {<<"(">> \o inner \o <<")">> :
               inner \in UNION {[1..n -> ArgAlphabet] : n \in 0..MaxArgLen}} :
        IsArgumentText(t)}
    \cup ArgSamples

InitArgs ==
    /\ argInput \in ArgTexts
    /\ argOutput = NoParsed
    /\ files = EditorFiles
    /\ cache = <<>>
    /\ built = EmptyDict
    /\ req = NoReq
    /\ doc = <<argInput>>
    /\ doc0 = doc
    /\ cursor = Pos(0, 0)
    /\ pc = "args"
    /\ att = AttInit
    /\ popups = <<>>
    /\ edits = <<>>
    /\ calls = 0
    /\ scArg = Pos(0, 0)
    /\ scOpening = "("
    /\ sc = ScanIdle
    /\ tooltips = <<>>
    /\ InitIdleLifecycle

\* lines 274-286 on the text of the argument range
ParseArgs ==
    /\ ~argOutput.done
    /\ LET r == parseArguments(argInput)
       IN  argOutput' = [arguments |-> r.arguments, namedArgs |-> r.namedArgs,
                         raised |-> r.raised, done |-> TRUE]
    /\ UNCHANGED argInput
    /\ UNCHANGED editorVars
    /\ UNCHANGED scanVars
    /\ UNCHANGED registryVars
    /\ UNCHANGED <<tooltips, lifecycleVars>>

NextArgs == ParseArgs

SpecArgs == InitArgs /\ [][NextArgs]_vars

(***************************************************************************)
(* Reference notions for argument lists: the items between the commas of   *)
(* the text inside the parentheses, trimmed; the parts of an item before   *)
(* and after its first "=".                                                *)
(***************************************************************************)
Inner(t) == SubSeq(t, 2, Len(t) - 1)

Occurrences(t, ch) == {i \in 1..Len(t) : t[i] = ch}

\* the position of the k-th occurrence of ch in t; 0 before the first,
\* Len(t) + 1 after the last
CutAt(t, ch, k) ==
    IF k = 0 THEN 0
    ELSE IF k > Cardinality(Occurrences(t, ch)) THEN Len(t) + 1
    ELSE CHOOSE i \in Occurrences(t, ch) :
             Cardinality({j \in Occurrences(t, ch) : j <= i}) = k

Segment(t, ch, k) == SubSeq(t, CutAt(t, ch, k - 1) + 1, CutAt(t, ch, k) - 1)

Trim(t) ==
    LET keep == {i \in 1..Len(t) : t[i] \notin Whitespace}
    IN  IF keep = {} THEN <<>>
        ELSE SubSeq(t, CHOOSE i \in keep : \A j \in keep : i <= j,
                       CHOOSE i \in keep : \A j \in keep : j <= i)

RefItems(t) ==
    SelectSeq([k \in 1..(Cardinality(Occurrences(Inner(t), ",")) + 1) |->
                  Trim(Segment(Inner(t), ",", k))],
              LAMBDA item : item # <<>>)

HasEquals(item) == Occurrences(item, "=") # {}
RefKey(item) == Trim(SubSeq(item, 1, CutAt(item, "=", 1) - 1))
RefValue(item) == Trim(SubSeq(item, CutAt(item, "=", 1) + 1, Len(item)))

(***************************************************************************)
(* C13: for every argument text the parse yields the trimmed, non-empty    *)
(* items: those without "=" as the positional list in their order, every   *)
(* item with "=" as a keyword argument key -> value (strings).             *)
(***************************************************************************)
C13_ArgumentsParsed ==
    argOutput.done =>
        LET items == RefItems(argInput)
            last(k) == CHOOSE i \in 1..Len(items) :
                           /\ HasEquals(items[i]) /\ RefKey(items[i]) = k
                           /\ \A j \in (i + 1)..Len(items) :
                                 ~(HasEquals(items[j]) /\ RefKey(items[j]) = k)
        IN  /\ ~argOutput.raised
            /\ argOutput.arguments = SelectSeq(items, LAMBDA item : ~HasEquals(item))
            /\ DOMAIN argOutput.namedArgs
                  = {RefKey(items[i]) : i \in {j \in 1..Len(items) : HasEquals(items[j])}}
            /\ \A k \in DOMAIN argOutput.namedArgs :
                  argOutput.namedArgs[k] = RefValue(items[last(k)])

RECURSIVE TopLevelCommas(_, _, _, _)
\* the number of commas of t from index i on that are outside every nested
\* parenthesized group and every quoted string
TopLevelCommas(t, i, level, state) ==
    IF i > Len(t) THEN 0
    ELSE IF state # None
    THEN TopLevelCommas(t, i + 1, level, IF t[i] = state THEN None ELSE state)
    ELSE IF t[i] \in Quotes THEN TopLevelCommas(t, i + 1, level, t[i])
    ELSE IF t[i] = "(" THEN TopLevelCommas(t, i + 1, level + 1, state)
    ELSE IF t[i] = ")" THEN TopLevelCommas(t, i + 1, level - 1, state)
    ELSE (IF t[i] = "," /\ level = 0 THEN 1 ELSE 0)
         + TopLevelCommas(t, i + 1, level, state)

(***************************************************************************)
(* C18: the argument text is split only on top-level commas: a comma       *)
(* inside a nested parenthesized group or inside a quoted string does not  *)
(* start a new argument, so there are at most as many arguments as         *)
(* top-level commas plus one.                                              *)
(***************************************************************************)
C18_SplitOnTopLevelCommasOnly ==
    (argOutput.done /\ ~argOutput.raised) =>
        Len(argOutput.arguments) + Cardinality(DOMAIN argOutput.namedArgs)
            <= TopLevelCommas(Inner(argInput), 1, 0, None) + 1

(***************************************************************************)
(* SpecHelp: one getHelpOnExpandAtCursor call (udf.py 227-246) on any      *)
(* document, from any cursor.  pc: "helpStart", "helpLocated", then        *)
(* "helped" (tooltip shown), "helpUnknown" (word not an expansion),        *)
(* "aborted" (ParseError reported) or "crashed".                           *)
(***************************************************************************)
InitHelp ==
    /\ doc \in Docs
    /\ doc0 = doc
    /\ cursor \in CursorPositions(doc)
    /\ pc = "helpStart"
    /\ att = AttInit
    /\ popups = <<>>
    /\ edits = <<>>
    /\ calls = 0
    /\ files = EditorFiles
    /\ cache = <<>>
    /\ built = EmptyDict
    /\ req = NoReq
    /\ scArg = Pos(0, 0)
    /\ scOpening = "("
    /\ sc = ScanIdle
    /\ InitIdleArgs
    /\ tooltips = <<>>
    /\ InitIdleLifecycle

\* lines 228-234
HelpLocate ==
    /\ pc = "helpStart"
    /\ LET loc == wordAndArgumentAtCursorRanges(doc, cursor)
       IN  /\ att' = [att EXCEPT !.loc = loc,
                                 !.crashAt = IF loc.status = "IndexError"
                                             THEN "locate" ELSE ""]
           /\ pc' = IF loc.status = "ok" THEN "helpLocated"
                    ELSE IF loc.status \in {"eof", "eol"} THEN "aborted"
                    ELSE "crashed"
           /\ popups' = IF loc.status \in {"eof", "eol"}
                        THEN Append(popups, Popup("Parse error", "dialog-warning"))
                        ELSE popups
    /\ UNCHANGED <<doc, doc0, cursor, edits, calls>>
    /\ UNCHANGED scanVars
    /\ UNCHANGED registryVars
    /\ UNCHANGED <<argVars, tooltips, lifecycleVars>>

\* a help that calls the expansion it documents
HelpShow_Invokes ==
    /\ pc = "helpLocated"
    /\ LET word == text(doc, att.loc.word_range)
           r == getExpansionsFor(cache, files, NDirs, DocMime)
       IN  /\ cache' = r.cache
           /\ built' = IF r.hit \/ r.raised THEN built ELSE CountBuild(built, DocMime)
           /\ req' = [mime |-> DocMime, hit |-> r.hit, raised |-> r.raised,
                      value |-> r.value]
           /\ IF r.raised
              THEN /\ pc' = "crashed"
                   /\ att' = [att EXCEPT !.word = word, !.crashAt = "resolve"]
                   /\ UNCHANGED <<tooltips, calls>>
              ELSE IF word \in DOMAIN r.value
              THEN /\ pc' = "helped"
                   /\ att' = [att EXCEPT !.word = word, !.func = r.value[word].func]
                   /\ tooltips' = Append(tooltips, word)
                   /\ calls' = calls + 1
              ELSE /\ pc' = "helpUnknown"
                   /\ att' = [att EXCEPT !.word = word]
                   /\ UNCHANGED <<tooltips, calls>>
    /\ UNCHANGED <<doc, doc0, cursor, edits, popups, files>>
    /\ UNCHANGED scanVars
    /\ UNCHANGED <<argVars, lifecycleVars>>

\* lines 235-246: the tooltip with the documentation of the expansion; a
\* function without a docstring has __doc__ = None, and line 241 raises
HelpShow ==
    /\ pc = "helpLocated"
    /\ LET word == text(doc, att.loc.word_range)
           r == getExpansionsFor(cache, files, NDirs, DocMime)
       IN  /\ cache' = r.cache
           /\ built' = IF r.hit \/ r.raised THEN built ELSE CountBuild(built, DocMime)
           /\ req' = [mime |-> DocMime, hit |-> r.hit, raised |-> r.raised,
                      value |-> r.value]
           /\ IF r.raised
              THEN /\ pc' = "crashed"
                   /\ att' = [att EXCEPT !.word = word, !.crashAt = "resolve"]
                   /\ tooltips' = tooltips
              ELSE IF word \in DOMAIN r.value
              THEN \E hasDoc \in BOOLEAN :
                      IF hasDoc
                      THEN /\ pc' = "helped"
                           /\ att' = [att EXCEPT !.word = word,
                                                 !.func = r.value[word].func]
                           /\ tooltips' = Append(tooltips, word)
                      ELSE /\ pc' = "crashed"
                           /\ att' = [att EXCEPT !.word = word,
                                                 !.func = r.value[word].func,
                                                 !.crashAt = "help"]
                           /\ tooltips' = tooltips
              ELSE /\ pc' = "helpUnknown"
                   /\ att' = [att EXCEPT !.word = word]
                   /\ tooltips' = tooltips
    /\ UNCHANGED <<doc, doc0, cursor, edits, popups, calls, files>>
    /\ UNCHANGED scanVars
    /\ UNCHANGED <<argVars, lifecycleVars>>

NextHelp == HelpLocate \/ HelpShow

SpecHelp == InitHelp /\ [][NextHelp]_vars

(***************************************************************************)
(* C14: getHelpOnExpandAtCursor never changes the document and never calls *)
(* the expansion callable: on every path there is no removeText or         *)
(* insertText, and the document stays what it was.                         *)
(***************************************************************************)
C14_HelpNeverMutates == doc = doc0 /\ edits = <<>> /\ calls = 0

C14_Witness ==
    /\ pc = "helped" /\ tooltips # <<>>
    /\ att.loc.argument_range # NoRange
    /\ doc = doc0 /\ calls = 0

(***************************************************************************)
(* C15: the edit of a successful expansion is the removals followed by     *)
(* exactly one insertion of the replacement at the start of the word: by   *)
(* insertTemplateText if and only if the callable is flagged               *)
(* use_template_iface and the view has a template interface, by insertText *)
(* otherwise.                                                              *)
(***************************************************************************)
Insertions == {i \in 1..Len(edits) : edits[i].op \in {"insertText", "insertTemplateText"}}

C15_InsertedExactlyOnce ==
    pc = "applied" =>
        /\ Insertions = {Len(edits)}
        /\ \A i \in 1..(Len(edits) - 1) : edits[i].op = "removeText"
        /\ edits[Len(edits)].range.start = att.loc.word_range.start
        /\ edits[Len(edits)].range.end = att.loc.word_range.start
        /\ edits[Len(edits)].op = "insertTemplateText"
              <=> (att.func.attr.use_template_iface /\ att.ti2)
        /\ edits[Len(edits)].op = "insertText"
              <=> ~(att.func.attr.use_template_iface /\ att.ti2)

C15_Witness ==
    /\ pc = "applied"
    /\ att.func.attr.use_template_iface /\ att.ti2
    /\ att.loc.argument_range # NoRange
    /\ Len(edits) = 3 /\ edits[3].op = "insertTemplateText"

(***************************************************************************)
(* The special cases a call of wordAndArgumentAtCursorRanges applies       *)
(* (udf.py 58-73): the tests of lines 59 and 67, the second on the cursor  *)
(* that the first case may have reassigned.                                *)
(***************************************************************************)
LocStart(cur) == [cursor |-> cur, arg |-> NoRange, err |-> None]

\* line 58-59: the first special case runs its backward match
Case1Applies(d, cur) ==
    LET line == d[cur.line + 1]
    IN  cur.col > 0 /\ cur.col < Len(line) /\ line[cur.col + 1] = ")"

\* line 67: the second special case runs its backward match
Case2Applies(d, cur) ==
    LET line == d[cur.line + 1]
        st == LocCase1(d, line, LocStart(cur))
    IN  /\ cur.col > 0 /\ st.err = None
        /\ PyIndexOk(line, st.cursor.col - 1)
        /\ PyIndex(line, st.cursor.col - 1) = ")"

\* number of backward matches a call runs
BackwardMatches(d, cur) ==
    (IF Case1Applies(d, cur) THEN 1 ELSE 0) + (IF Case2Applies(d, cur) THEN 1 ELSE 0)

(***************************************************************************)
(* C17: the two special cases of wordAndArgumentAtCursorRanges exclude     *)
(* each other: the "character before the cursor is )" case is applied only *)
(* when the "character at the cursor is )" case was not, so a call runs    *)
(* the backward match at most once.                                        *)
(***************************************************************************)
C17_SpecialCasesExclusive ==
    Located => BackwardMatches(doc0, cursor) <= 1

(***************************************************************************)
(* C19: every argument_range that wordAndArgumentAtCursorRanges returns is *)
(* a valid range (start <= end) whose text starts with "(" and ends with   *)
(* the ")" that balances it, quoted delimiters ignored.                    *)
(***************************************************************************)
C19_ArgumentRangeBalanced ==
    (att.loc.status = "ok" /\ att.loc.argument_range # NoRange) =>
        LET r == att.loc.argument_range
            last == Pos(r.end.line, r.end.col - 1)
            ref == RefMatch(doc0, r.start, "(")
        IN  /\ PosLE(r.start, r.end)
            /\ character(doc0, r.start) = "("
            /\ character(doc0, last) = ")"
            /\ ref.idx # 0
            /\ Items(doc0)[ref.idx].pos = last

C19_Witness ==
    /\ att.loc.status = "ok" /\ att.loc.argument_range # NoRange
    /\ att.loc.argument_range.end.line > att.loc.argument_range.start.line
    /\ cursor = att.loc.argument_range.end

(***************************************************************************)
(* C20: an expandAtCursor attempt goes through its steps in the order      *)
(* locate, resolve, parse arguments, invoke, (render), apply.  The         *)
(* callable is invoked at most once and only after the word was found in   *)
(* the merged expansions; it is never invoked after a ParseError or for an *)
(* absent word; the document is edited only after the invocation returned. *)
(***************************************************************************)
StepOrder ==
    {<<"start", "located">>, <<"located", "resolved">>, <<"resolved", "argsParsed">>,
     <<"argsParsed", "invoked">>, <<"invoked", "ready">>, <<"ready", "applied">>}

Ends == {"aborted", "crashed"}

InvokedProperly ==
    /\ calls <= 1
    /\ calls = 1 =>
          /\ pc \notin {"start", "located", "resolved", "argsParsed"}
          /\ att.loc.status = "ok"
          /\ req.mime = DocMime /\ ~req.raised
          /\ att.word = text(doc0, att.loc.word_range)
          /\ att.word \in DOMAIN req.value
          /\ att.func = req.value[att.word].func
    /\ att.loc.status \in {"eof", "eol"} => calls = 0
    /\ (req.mime # <<>> /\ att.word \notin DOMAIN req.value) => calls = 0
    /\ edits # <<>> => (calls = 1 /\ att.replacement.kind \notin {"none", "raise"})

C20_StepsInOrder ==
    /\ []InvokedProperly
    /\ [][pc' # pc => (<<pc, pc'>> \in StepOrder \/ (pc \notin Ends /\ pc' \in Ends))]_vars
    /\ [][calls' # calls => (pc = "argsParsed" /\ calls' = calls + 1)]_vars
    /\ [][edits' # edits => pc = "ready"]_vars

C20_Witness ==
    /\ pc = "applied" /\ calls = 1
    /\ att.arguments # <<>> /\ att.namedArgs # EmptyDict
    /\ edits # <<>>

(***************************************************************************)
(* SpecLifecycle: the event listeners and actions of kate/__init__.py:     *)
(* plugins register functions and actions and clear listener sets in any   *)
(* order, then pateDie runs.  die.pc is "loaded", then "firing" while      *)
(* unload.fire() calls the functions, then "dead".  A called function      *)
(* returns or raises.                                                      *)
(***************************************************************************)
InitLifecycle ==
    /\ InitIdleLifecycle
    /\ files = EditorFiles
    /\ cache = <<>>
    /\ built = EmptyDict
    /\ req = NoReq
    /\ doc = <<TodayLine>>
    /\ doc0 = doc
    /\ cursor = Pos(0, 0)
    /\ pc = "lifecycle"
    /\ att = AttInit
    /\ popups = <<>>
    /\ edits = <<>>
    /\ calls = 0
    /\ scArg = Pos(0, 0)
    /\ scOpening = "("
    /\ sc = ScanIdle
    /\ InitIdleArgs
    /\ tooltips = <<>>

LifecycleFrame ==
    /\ UNCHANGED editorVars
    /\ UNCHANGED scanVars
    /\ UNCHANGED registryVars
    /\ UNCHANGED <<argVars, tooltips>>

\* @init, @unload, @viewChanged, @viewCreated: <event>.functions.add(func)
Register(e, f) ==
    /\ die.pc = "loaded"
    /\ functions' = [functions EXCEPT ![e] = @ \cup {f}]
    /\ UNCHANGED <<actions, die>>
    /\ LifecycleFrame

\* @action: action.actions.add(a)  (line 248)
RegisterAction(a) ==
    /\ die.pc = "loaded"
    /\ actions' = actions \cup {a}
    /\ UNCHANGED <<functions, die>>
    /\ LifecycleFrame

\* <event>.clear()  (line 150)
Clear(e) ==
    /\ die.pc = "loaded"
    /\ functions[e] # {}
    /\ functions' = [functions EXCEPT ![e] = {}]
    /\ UNCHANGED <<actions, die>>
    /\ LifecycleFrame

\* a pateDie that clears the listeners before it calls them
PateDieStart_ClearsFirst ==
    /\ die.pc = "loaded"
    /\ die' = [die EXCEPT !.pc = "firing", !.pending = {},
                          !.atDie = functions["unload"], !.event = "unload"]
    /\ functions' = [e \in Events |-> {}]
    /\ UNCHANGED actions
    /\ LifecycleFrame

\* lines 326-332: the actions are removed from their widgets, then
\* unload.fire() starts to iterate over unload.functions
PateDieStart ==
    /\ die.pc = "loaded"
    /\ die' = [die EXCEPT !.pc = "firing", !.pending = functions["unload"],
                          !.atDie = functions["unload"], !.event = "unload"]
    /\ UNCHANGED <<functions, actions>>
    /\ LifecycleFrame

\* <event>.fire(), line 149: _callAll starts to iterate over the functions
\* of the event (viewChanged and viewCreated are fired by the window, init
\* by pateInit); die.pc is "calling" until fire returns
FireStart(e) ==
    /\ die.pc = "loaded"
    /\ die' = [die EXCEPT !.pc = "calling", !.pending = functions[e],
                          !.atDie = functions[e], !.event = e]
    /\ UNCHANGED <<functions, actions>>
    /\ LifecycleFrame

\* _callAll returns to the caller of fire when the loop is over
FireEnd ==
    /\ die.pc = "calling"
    /\ die.pending = {}
    /\ die' = DieIdle
    /\ UNCHANGED <<functions, actions>>
    /\ LifecycleFrame

\* a _callAll without its try: the exception of a function ends the loop
CallNext_StopsOnRaise ==
    /\ die.pc \in {"firing", "calling"}
    /\ \E f \in die.pending, raises \in BOOLEAN :
          die' = [die EXCEPT !.pending = IF raises THEN {} ELSE @ \ {f},
                             !.called[f] = @ + 1,
                             !.stderr = IF raises THEN @ + 1 ELSE @]
    /\ UNCHANGED <<functions, actions>>
    /\ LifecycleFrame

\* _callAll, lines 128-134: the next function of the set is called; when
\* it raises, the traceback is printed and the loop continues
CallNext ==
    /\ die.pc \in {"firing", "calling"}
    /\ \E f \in die.pending, raises \in BOOLEAN :
          die' = [die EXCEPT !.pending = @ \ {f},
                             !.called[f] = @ + 1,
                             !.stderr = IF raises THEN @ + 1 ELSE @]
    /\ UNCHANGED <<functions, actions>>
    /\ LifecycleFrame

\* lines 334-338, after unload.fire() returned
PateDieClear ==
    /\ die.pc = "firing"
    /\ die.pending = {}
    /\ actions' = {}
    /\ functions' = [e \in Events |-> {}]
    /\ die' = [die EXCEPT !.pc = "dead"]
    /\ LifecycleFrame

NextLifecycle ==
    \/ \E e \in Events, f \in Funcs : Register(e, f)
    \/ \E a \in Actions : RegisterAction(a)
    \/ \E e \in Events : Clear(e)
    \/ \E e \in Events : FireStart(e)
    \/ FireEnd
    \/ PateDieStart
    \/ CallNext
    \/ PateDieClear

SpecLifecycle == InitLifecycle /\ [][NextLifecycle]_vars

(***************************************************************************)
(* C16: every function registered with @unload and not cleared since is    *)
(* called exactly once when pateDie runs, before the listener sets are     *)
(* cleared; after pateDie the action set and the init, unload, viewChanged *)
(* and viewCreated sets are all empty.                                     *)
(***************************************************************************)
C16_UnloadCalledOnceThenCleared ==
    /\ die.pc = "loaded" => \A f \in Funcs : die.called[f] = 0
    /\ die.pc = "firing" =>
          /\ functions["unload"] = die.atDie
          /\ \A f \in Funcs :
                die.called[f] = IF f \in die.atDie \ die.pending THEN 1 ELSE 0
    /\ die.pc = "dead" =>
          /\ \A f \in Funcs : die.called[f] = IF f \in die.atDie THEN 1 ELSE 0
          /\ actions = {}
          /\ \A e \in Events : functions[e] = {}

C16_Witness ==
    /\ die.pc = "dead"
    /\ Cardinality(die.atDie) >= 2
    /\ die.stderr >= 1
    /\ \A f \in die.atDie : die.called[f] = 1

(***************************************************************************)
(* C21: matchingParenthesisPosition only reads: the document and the       *)
(* position object passed by the caller keep their values throughout the   *)
(* scan, whether it returns a position or raises ParseError.               *)
(***************************************************************************)
C21_ScanIsPureRead == doc = doc0 /\ scArg = cursor

C21_Witness ==
    /\ sc.status = "eol"
    /\ sc.pos # scArg
    /\ sc.pos.line # scArg.line

RECURSIVE EscapedWalk(_, _, _, _)
\* the index of the ")" that closes the "(" the walk started on, in one
\* line, when a backslash inside a quoted span escapes the character after
\* it; 0 when there is none
EscapedWalk(line, i, level, state) ==
    IF i > Len(line) THEN 0
    ELSE IF state \in Quotes
    THEN (IF line[i] = "\\" THEN EscapedWalk(line, i + 2, level, state)
          ELSE EscapedWalk(line, i + 1, level, IF line[i] = state THEN None ELSE state))
    ELSE IF line[i] \in Quotes THEN EscapedWalk(line, i + 1, level, line[i])
    ELSE IF line[i] = "(" THEN EscapedWalk(line, i + 1, level + 1, state)
    ELSE IF line[i] = ")"
    THEN (IF level = 1 THEN i ELSE EscapedWalk(line, i + 1, level - 1, state))
    ELSE EscapedWalk(line, i + 1, level, state)

(***************************************************************************)
(* C22: the scan handles escaped characters: a quote preceded by a         *)
(* backslash inside a quoted span does not end the span, so the forward    *)
(* scan from a "(" returns the position after the ")" that closes it when  *)
(* escaped quotes are taken as part of their string literal.               *)
(***************************************************************************)
C22_EscapedQuotesHandled ==
    (/\ ScanDone /\ scOpening = "(" /\ Len(doc) = 1
     /\ character(doc, scArg) = "("
     /\ EscapedWalk(doc[1], scArg.col + 1, 0, None) # 0)
    => /\ sc.status = "found"
       /\ sc.pos = Pos(0, EscapedWalk(doc[1], scArg.col + 1, 0, None))

(***************************************************************************)
(* SpecScanFair: a call of matchingParenthesisPosition from any position   *)
(* of any line, also one column before its first character or at its end,  *)
(* in either direction; the loop keeps running while it can.               *)
(***************************************************************************)
StartPositions(d) ==
    UNION {{Pos(l, c) : c \in (-1)..Len(d[l + 1])} : l \in 0..(Len(d) - 1)}

InitScanAny ==
    /\ doc \in Docs
    /\ scOpening \in {"(", ")"}
    /\ scArg \in StartPositions(doc)
    /\ sc = ScanInit(scArg)
    /\ doc0 = doc
    /\ cursor = scArg
    /\ pc = "scan"
    /\ att = AttInit
    /\ popups = <<>>
    /\ edits = <<>>
    /\ calls = 0
    /\ files = EditorFiles
    /\ cache = <<>>
    /\ built = EmptyDict
    /\ req = NoReq
    /\ InitIdleArgs
    /\ tooltips = <<>>
    /\ InitIdleLifecycle

SpecScanFair == InitScanAny /\ [][NextScan]_vars /\ WF_vars(ScanStep)

(***************************************************************************)
(* C23: on every document, from every start position and in either         *)
(* direction, matchingParenthesisPosition terminates: it returns a         *)
(* position or raises ParseError, also with unbalanced delimiters, a start *)
(* character that is not the opening delimiter, or a quote never closed.   *)
(***************************************************************************)
C23_ScanTerminates == <>ScanDone

C23_Witness ==
    /\ sc.status = "eof"
    /\ sc.state \in Quotes
    /\ character(doc, scArg) # scOpening
    /\ sc.level # 0

(***************************************************************************)
(* C24: for every document and every cursor in it,                         *)
(* wordAndArgumentAtCursorRanges returns a pair of ranges or raises        *)
(* ParseError; it fails in no other way, also when the backward match of a *)
(* special case moves the cursor to another line.                          *)
(***************************************************************************)
C24_OnlyParseErrors ==
    Located => att.loc.status \in {"ok", "eof", "eol"}

(***************************************************************************)
(* C25: firing an event (init, unload, viewChanged, viewCreated) calls     *)
(* every function registered for it exactly once, also when some of them   *)
(* raise: the exception is contained, the remaining functions are still    *)
(* called, and fire returns normally.                                      *)
(***************************************************************************)
FireOver == die.pc = "calling" /\ die.pending = {}

C25_FireCallsEveryListenerOnce ==
    /\ die.pc = "calling" =>
          /\ die.atDie = functions[die.event]
          /\ die.pending \subseteq die.atDie
          /\ \A f \in Funcs : die.called[f] <= 1
          /\ \A f \in Funcs \ die.atDie : die.called[f] = 0
    /\ FireOver =>
          /\ \A f \in functions[die.event] : die.called[f] = 1
          /\ die.stderr <= Cardinality(die.atDie)

C25_Witness ==
    /\ FireOver
    /\ die.event = "viewChanged"
    /\ Cardinality(functions["viewChanged"]) >= 2
    /\ die.stderr >= 1
    /\ \A f \in functions["viewChanged"] : die.called[f] = 1

====
